---- MODULE Spec2Model ----
(***************************************************************************)
(* Fraud-monitoring dashboard front end: the Chart Registry (charts script)*)
(* and the Application Controller (app.js), as a state machine.            *)
(*                                                                         *)
(* One JavaScript turn (a handler, or the continuation that runs when a    *)
(* network response is delivered, together with every microtask it         *)
(* schedules) is one action: the page is single-threaded, so nothing       *)
(* interleaves inside a turn.  A request in flight is state; its response  *)
(* (success with some payload, or failure) is an input of the action that  *)
(* delivers it.                                                            *)
(***************************************************************************)
EXTENDS Integers, Sequences, FiniteSets, TLC

VARIABLES
    chartLib,      \* the global Chart (the charting library) is defined
    dom,           \* ids of the elements present in the document
    charts,        \* window.charts: chart name -> widget id, 0 when unset
    live,          \* widget name -> ids of the widgets constructed and not destroyed
    chartData,     \* chart name -> labels, first series, and what was last drawn
    reportChart,   \* app.js reportChart: widget id, 0 for null
    reportKind,    \* report type the live report widget was configured for
    modalActive,   \* #report-result carries class "active"
    reportTitle,   \* text of #report-title
    reportContent, \* what #report-content shows
    reportPending, \* report requests in flight, in issue order
    run,           \* the latest refreshAllData invocation: position and what it logged
    chartFetch,    \* the four chart requests of that invocation
    chartResp,     \* payloads of its chart requests that resolved
    stats,         \* text of the four stat cards
    older,         \* the invocations that were in flight when a later one began
    recentRows,    \* rows of #recent-transactions-body
    allRows,       \* rows of #all-transactions-body
    tableLatest,   \* the request issued last of those that write the full table
    alertCards,    \* cards of #alerts-list
    alertBadge,    \* text of #alert-badge (-1: as the page shipped it)
    txPending,     \* loadTransactions requests in flight issued outside the run
    alertsPending, \* loadAlerts requests in flight
    searchPending, \* search requests in flight
    visible,       \* page sections without class "hidden"
    active,        \* nav items with class "active"
    last,          \* the most recent top-level call and how it ended
    refresh,       \* the latest handleRefresh invocation: position and the POST response
    caption,       \* text of the header caption (.page-header p)
    spinning,      \* the refresh icon carries class "fa-spin"
    spinTimers,    \* 500 ms timers of handleRefresh not yet fired
    analysisHidden, \* #analysis-result carries class "hidden"
    analysis,      \* the analysis result fields
    analyzePending, \* /api/analyze requests in flight
    exportPending, \* /api/export requests in flight
    notice,        \* alert() raised by the latest search, export or analyze turn
    ready,         \* the Application Controller has received the readiness signal
    chartTimer     \* setTimeout(initializeCharts, 500) is armed and has not fired

vars == <<chartLib, dom, charts, live, chartData, reportChart, reportKind,
          modalActive, reportTitle, reportContent, reportPending, run,
          chartFetch, chartResp, stats, older, recentRows,
          allRows, tableLatest, alertCards, alertBadge, txPending, alertsPending, searchPending,
          visible, active, last, refresh, caption, spinning, spinTimers,
          analysisHidden, analysis, analyzePending, exportPending, notice,
          ready, chartTimer>>

chartVars  == <<charts, live, chartData>>
reportVars == <<reportChart, reportKind, modalActive, reportTitle,
                reportContent, reportPending>>
runVars    == <<run, chartFetch, chartResp, stats, older>>
tableVars  == <<recentRows, allRows, tableLatest>>
alertVars  == <<alertCards, alertBadge>>
navVars    == <<visible, active>>
refreshVars  == <<refresh, caption, spinning, spinTimers>>
analysisVars == <<analysisHidden, analysis, analyzePending>>
uiVars     == <<refreshVars, analysisVars, exportPending, notice, ready, chartTimer>>

(***************************************************************************)
(* Bounds of the model.                                                    *)
(***************************************************************************)
MaxWidgets == 2   \* widget ids available per name
MaxPending == 2   \* requests of one kind in flight at once
MaxPage    == 15  \* records on a structured page of transactions  
MaxMixed   == 2   \* longest page enumerated record by record
MaxOlder   == 1   \* invocations kept while a later one runs

(***************************************************************************)
(* Names fixed by the program.                                             *)
(***************************************************************************)
ChartNames == {"fraudDistribution", "amountDistribution",
               "transactionType", "locationRisk"}

ChartOrder == <<"fraudDistribution", "amountDistribution",
                "transactionType", "locationRisk">>

WidgetNames == ChartNames \cup {"report"}

CanvasOf(name) ==
    CASE name = "fraudDistribution"  -> "fraud-distribution-chart"
      [] name = "amountDistribution" -> "amount-distribution-chart"
      [] name = "transactionType"    -> "transaction-type-chart"
      [] name = "locationRisk"       -> "location-risk-chart"

Canvases == {CanvasOf(n) : n \in ChartNames}

InitialLabels(name) ==
    IF name = "fraudDistribution" THEN <<"Legitimate", "Fraudulent">> ELSE <<>>

InitialData(name) ==
    IF name = "fraudDistribution" THEN <<0, 0>> ELSE <<>>

NoData == [labels |-> <<>>, data |-> <<>>,
           drawn |-> [labels |-> <<>>, data |-> <<>>]]

NoCall == [op |-> "none", arg |-> "", threw |-> FALSE, warned |-> FALSE,
           applied |-> FALSE, issued |-> FALSE]

Call(op, arg, threw, warned, applied, issued) ==
    [op |-> op, arg |-> arg, threw |-> threw, warned |-> warned,
     applied |-> applied, issued |-> issued]

(***************************************************************************)
(* JavaScript values of a chart payload {labels, data}.  A field is        *)
(* missing (undefined), null, or an array; the payload itself may be the   *)
(* JSON value null.                                                        *)
(***************************************************************************)
Undefined == [t |-> "undefined", v |-> <<>>]
Null      == [t |-> "null", v |-> <<>>]
Array(a)  == [t |-> "array", v |-> a]

NullPayload == [isNull |-> TRUE, labels |-> Undefined, data |-> Undefined]

Payload(l, d) == [isNull |-> FALSE, labels |-> l, data |-> d]

\* Payloads a chart endpoint can answer with: arrays of equal and of unequal
\* length, empty arrays, a missing or null field, and the JSON value null.
ChartPayloads ==
    { NullPayload,
      Payload(Undefined, Undefined),
      Payload(Array(<<"A">>), Undefined),
      Payload(Null, Array(<<7>>)),
      Payload(Array(<<>>), Array(<<>>)),
      Payload(Array(<<"A">>), Array(<<7>>)),
      Payload(Array(<<>>), Array(<<7>>)),
      Payload(Array(<<"A">>), Array(<<>>)) }

\* Truthy with a fault: an empty array taken for "no data".
TruthyNonEmpty(x) == x.t = "array" /\ Len(x.v) > 0

\* ToBoolean of a payload field: every array is truthy, the empty one too.
Truthy(x) == x.t = "array"

(***************************************************************************)
(* Chart Registry (charts script).                                         *)
(***************************************************************************)
Registry == [charts |-> charts, live |-> live, chartData |-> chartData]

\* new Chart(...) hands out an object distinct from every live one and from
\* the one the caller still refers to.
FreshIds(lv, ref) == (1..MaxWidgets) \ (lv \cup {ref})

FreshId(lv, ref) ==
    CHOOSE i \in FreshIds(lv, ref) : \A j \in FreshIds(lv, ref) : i <= j

\* DestroyExisting with a fault: the prior instance is left alive.
DestroyNothing(reg, name) == reg

\* chart.destroy() of the widget the registry holds under name, if any.
DestroyExisting(reg, name) ==
    IF reg.charts[name] # 0
    THEN [reg EXCEPT !.live[name] = @ \ {reg.charts[name]}]
    ELSE reg

\* initChart with a fault: the canvas is used without the test for its
\* absence.
initChartUnguarded(reg, d, lib, name) ==
    IF CanvasOf(name) \notin d \/ ~lib
    THEN [reg |-> DestroyExisting(reg, name), threw |-> TRUE, warned |-> FALSE]
    ELSE LET r1 == DestroyExisting(reg, name)
             id == FreshId(r1.live[name], r1.charts[name])
         IN  [reg |-> [charts    |-> [r1.charts EXCEPT ![name] = id],
                       live      |-> [r1.live EXCEPT ![name] = @ \cup {id}],
                       chartData |-> r1.chartData],
              threw |-> FALSE, warned |-> FALSE]

\* init<Name>Chart(): look the canvas up, release the widget held under the
\* name, construct the new one with its fixed configuration and empty or
\* zeroed data.  With Chart undefined, "new Chart" is a ReferenceError.
initChart(reg, d, lib, name) ==
    IF CanvasOf(name) \notin d
    THEN [reg |-> reg, threw |-> FALSE, warned |-> TRUE]
    ELSE LET r1 == DestroyExisting(reg, name)
         IN  IF ~lib
             THEN [reg |-> r1, threw |-> TRUE, warned |-> FALSE]
             ELSE LET id == FreshId(r1.live[name], r1.charts[name])
                  IN  [reg |-> [charts    |-> [r1.charts EXCEPT ![name] = id],
                                live      |-> [r1.live EXCEPT ![name] = @ \cup {id}],
                                chartData |-> [r1.chartData EXCEPT ![name] =
                                    [labels |-> InitialLabels(name),
                                     data   |-> InitialData(name),
                                     drawn  |-> [labels |-> InitialLabels(name),
                                                 data   |-> InitialData(name)]]]],
                       threw |-> FALSE, warned |-> FALSE]

\* Whether init<Name>Chart can take a widget id within the model's pool.
CanInit(reg, d, lib, name) ==
    CanvasOf(name) \in d /\ lib =>
        FreshIds(DestroyExisting(reg, name).live[name], reg.charts[name]) # {}

\* initializeCharts(): the four init calls in order; an exception in one
\* ends the function there.
RECURSIVE initFrom(_, _, _, _)
initFrom(st, d, lib, i) ==
    IF i > Len(ChartOrder) \/ st.threw
    THEN st
    ELSE LET r == initChart(st.reg, d, lib, ChartOrder[i])
         IN  initFrom([reg |-> r.reg, threw |-> r.threw,
                       warned |-> st.warned \/ r.warned], d, lib, i + 1)

initializeCharts(reg, d, lib) ==
    initFrom([reg |-> reg, threw |-> FALSE, warned |-> FALSE], d, lib, 1)

\* updateChart(name, data).
updateChart(ch, cd, name, data) ==
    IF ch[name] # 0
    THEN IF data.isNull
         THEN [chartData |-> cd, threw |-> TRUE, warned |-> FALSE, applied |-> FALSE]
         ELSE IF Truthy(data.labels) /\ Truthy(data.data)
              THEN [chartData |-> [cd EXCEPT ![name] =
                        [labels |-> data.labels.v, data |-> data.data.v,
                         drawn  |-> [labels |-> data.labels.v, data |-> data.data.v]]],
                    threw |-> FALSE, warned |-> FALSE, applied |-> TRUE]
              ELSE [chartData |-> cd, threw |-> FALSE, warned |-> FALSE,
                    applied |-> FALSE]
    ELSE [chartData |-> cd, threw |-> FALSE, warned |-> TRUE, applied |-> FALSE]

(***************************************************************************)
(* Actions of the Chart Registry.                                          *)
(***************************************************************************)
\* The charting library finishes loading from the CDN.
ChartLibLoads ==
    /\ ~chartLib
    /\ chartLib' = TRUE
    /\ last' = NoCall
    /\ UNCHANGED <<dom, chartVars, reportVars, runVars, tableVars, alertVars,
                   txPending, alertsPending, searchPending, navVars>>
    /\ UNCHANGED uiVars

\* A chart canvas leaves or enters the document (a view is rebuilt).
CanvasChange(c) ==
    /\ c \in Canvases
    /\ dom' = IF c \in dom THEN dom \ {c} ELSE dom \cup {c}
    /\ last' = NoCall
    /\ UNCHANGED <<chartLib, chartVars, reportVars, runVars, tableVars, alertVars,
                   txPending, alertsPending, searchPending, navVars>>
    /\ UNCHANGED uiVars

\* window.appChartsReady is a function: app.js never assigns it.
AppChartsReady == FALSE

\* signalReady with a fault: the controller's handler is taken to exist.
signalReadyAlways(threw) == ~threw

\* initializeCharts lines 36-39: if (window.appChartsReady) call it; reached
\* only when no init function threw.
signalReady(threw) == ~threw /\ AppChartsReady

\* initializeCharts() and what it leaves alone, but for the 500 ms timer.
RunInitializeCharts ==
    /\ \A n \in ChartNames : CanInit(Registry, dom, chartLib, n)
    /\ LET r == initializeCharts(Registry, dom, chartLib)
       IN  /\ charts' = r.reg.charts
           /\ live' = r.reg.live
           /\ chartData' = r.reg.chartData
           /\ last' = Call("initializeCharts", "", r.threw, r.warned, ~r.threw, FALSE)
           /\ ready' = (ready \/ signalReady(r.threw))
    /\ UNCHANGED <<chartLib, dom, reportVars, runVars, tableVars, alertVars,
                   txPending, alertsPending, searchPending, navVars>>
    /\ UNCHANGED <<refreshVars, analysisVars, exportPending, notice>>

\* initializeCharts(), from the DOMContentLoaded handler or
\* window.FraudCharts.init.
InitializeCharts == RunInitializeCharts /\ UNCHANGED chartTimer

\* The 500 ms timer the DOMContentLoaded handler armed, Chart having been
\* undefined then, fires: initializeCharts(), once.
ChartTimerFires ==
    /\ chartTimer
    /\ chartTimer' = FALSE
    /\ RunInitializeCharts

\* One of window.FraudCharts.init<Name>Chart called on its own.
InitOneChart(name) ==
    /\ CanInit(Registry, dom, chartLib, name)
    /\ LET r == initChart(Registry, dom, chartLib, name)
       IN  /\ charts' = r.reg.charts
           /\ live' = r.reg.live
           /\ chartData' = r.reg.chartData
           /\ last' = Call("initChart", name, r.threw, r.warned,
                           ~r.threw /\ ~r.warned, FALSE)
    /\ UNCHANGED <<chartLib, dom, reportVars, runVars, tableVars, alertVars,
                   txPending, alertsPending, searchPending, navVars>>
    /\ UNCHANGED uiVars

UpdateChartCall(name, data) ==
    /\ LET r == updateChart(charts, chartData, name, data)
       IN  /\ chartData' = r.chartData
           /\ last' = Call("updateChart", name, r.threw, r.warned, r.applied, FALSE)
    /\ UNCHANGED <<chartLib, dom, charts, live, reportVars, runVars, tableVars,
                   alertVars, txPending, alertsPending, searchPending, navVars>>
    /\ UNCHANGED uiVars

(***************************************************************************)
(* The page as it is when the scripts have been evaluated: window.charts   *)
(* is {}, reportChart is null, nothing is in flight.  d is the set of      *)
(* elements the document holds and lib whether Chart is defined.           *)
(***************************************************************************)
StatIds == {"total-transactions", "fraud-transactions",
            "legit-transactions", "fraud-rate"}

PageNames == {"dashboard", "transactions", "alerts", "reports"}

PageElem(p) ==
    CASE p = "dashboard"    -> "dashboard-page"
      [] p = "transactions" -> "transactions-page"
      [] p = "alerts"       -> "alerts-page"
      [] p = "reports"      -> "reports-page"

\* Elements the code looks up and tests before use.
GuardedElems == Canvases \cup {"recent-transactions-body", "all-transactions-body",
                               "alerts-list", "alert-badge"}

\* Elements the code uses without a test.
FixedElems == StatIds \cup {PageElem(p) : p \in PageNames}
              \cup {"report-result", "report-content", "report-title"}

AllElems == GuardedElems \cup FixedElems

InitialRows  == <<[kind |-> "initial", id |-> 0, status |-> ""]>>
InitialCards == <<[kind |-> "initial", id |-> 0]>>
InitialStats == [s \in StatIds |-> "-"]

IdleRun == [pc |-> "idle", started |-> {}, dashErr |-> FALSE,
            chartErr |-> FALSE, txErr |-> FALSE, rejected |-> FALSE]

EmptyRegistry == [charts    |-> [n \in ChartNames |-> 0],
                  live      |-> [n \in WidgetNames |-> {}],
                  chartData |-> [n \in ChartNames |-> NoData]]

\* The header caption and the analysis result: handleRefresh tests for both
\* before it touches them.
HeaderElems == {"header-caption", "analysis-result"}

\* The document with every element the code looks up.
Document == AllElems \cup HeaderElems

\* A /api/refresh payload: null, or the source name and the record count.
NullRefresh == [isNull |-> TRUE, source |-> "", count |-> 0]
RefreshPayload(src, n) == [isNull |-> FALSE, source |-> src, count |-> n]

IdleRefresh == [pc |-> "idle", resp |-> NullRefresh]

\* `Source: ${response.source} | Records: ${response.count}`
CaptionOf(resp) == [source |-> resp.source, count |-> resp.count]

InitialCaption  == [source |-> "initial", count |-> 0]
InitialAnalysis == [prediction |-> "", color |-> "", probability |-> "",
                    risk |-> "", recommendation |-> ""]

\* The page section shown, and the nav item marked, by the page's markup.
InitialPage == {"dashboard"}

PageBase(d, lib, reg, timer) ==
    /\ chartLib = lib
    /\ dom = d
    /\ charts = reg.charts
    /\ live = reg.live
    /\ chartData = reg.chartData
    /\ reportChart = 0
    /\ reportKind = ""
    /\ modalActive = FALSE
    /\ reportTitle = ""
    /\ reportContent = "initial"
    /\ reportPending = <<>>
    /\ chartFetch = [n \in ChartNames |-> "none"]
    /\ chartResp = [n \in ChartNames |-> NullPayload]
    /\ stats = InitialStats
    /\ older = <<>>
    /\ recentRows = InitialRows
    /\ allRows = InitialRows
    /\ tableLatest = "none"
    /\ alertCards = InitialCards
    /\ alertBadge = -1
    /\ txPending = 0
    /\ alertsPending = 0
    /\ searchPending = 0
    /\ visible = {p \in InitialPage : PageElem(p) \in d}
    /\ active = InitialPage
    /\ refresh = IdleRefresh
    /\ caption = InitialCaption
    /\ spinning = FALSE
    /\ spinTimers = 0
    /\ analysisHidden = TRUE
    /\ analysis = InitialAnalysis
    /\ analyzePending = 0
    /\ exportPending = 0
    /\ notice = ""
    /\ ready = FALSE
    /\ chartTimer = timer

\* The page when the scripts have been evaluated and initializeApp has not
\* run: no handler of setupNavigation or setupEventListeners is installed.
PageAt(d, lib, reg, timer) ==
    /\ PageBase(d, lib, reg, timer)
    /\ run = IdleRun
    /\ last = NoCall

\* The page when initializeApp returns: the handlers are installed and the
\* statistics request of the start-up refreshAllData() is in flight.
AppStarted(d, lib, reg) ==
    /\ PageBase(d, lib, reg, FALSE)
    /\ run = [IdleRun EXCEPT !.pc = "stats", !.started = {"dashboard"}]
    /\ last = Call("refreshAllData", "", FALSE, FALSE, FALSE, TRUE)

\* The page with no chart timer armed.
PageWith(d, lib, reg) == PageAt(d, lib, reg, FALSE)

PageLoaded(d, lib) == PageWith(d, lib, EmptyRegistry)

\* The page once the charts script's DOMContentLoaded handler has run
\* initializeCharts with the library loaded.
PageCharted(d) == PageWith(d, TRUE, initializeCharts(EmptyRegistry, d, TRUE).reg)

(***************************************************************************)
(* Chart Registry alone: canvases come and go, the library loads, the      *)
(* init functions are called in any order.                                 *)
(***************************************************************************)
InitRegistry ==
    \E d \in SUBSET Canvases, lib \in BOOLEAN :
        PageLoaded((AllElems \ Canvases) \cup d, lib)

NextRegistry ==
    \/ ChartLibLoads
    \/ \E c \in Canvases : CanvasChange(c)
    \/ InitializeCharts
    \/ \E n \in ChartNames : InitOneChart(n)

SpecRegistry == InitRegistry /\ [][NextRegistry]_vars

(***************************************************************************)
(* Chart updates: the registry is initialised against a fixed document and *)
(* updateChart is called with every name and payload.                      *)
(***************************************************************************)
InitUpdate ==
    \E d \in SUBSET Canvases :
        PageLoaded((AllElems \ Canvases) \cup d, TRUE)

NextUpdate ==
    \/ InitializeCharts
    \/ \E n \in ChartNames, p \in ChartPayloads : UpdateChartCall(n, p)

SpecUpdate == InitUpdate /\ [][NextUpdate]_vars

(***************************************************************************)
(* Properties of the Chart Registry and of updateChart.                    *)
(***************************************************************************)

\* C6: in every reachable state each of the four chart names has at most one
\* widget that is constructed and not destroyed, and the registry entry of
\* the name is exactly that widget (no entry, no live widget): a new widget
\* is constructed under a name only once the prior one has been destroyed.
C6_OneLiveWidgetPerName ==
    \A n \in ChartNames :
        /\ Cardinality(live[n]) <= 1
        /\ live[n] = IF charts[n] = 0 THEN {} ELSE {charts[n]}

\* C6 witness: a name was mounted a second time; the second widget is the
\* only live one and the registry refers to it.
C6_Remounted ==
    \E n \in ChartNames :
        /\ last.op \in {"initChart", "initializeCharts"}
        /\ ~last.threw
        /\ charts[n] = 2
        /\ live[n] = {2}

\* C7: updateChart(name, data) on a name with no mounted widget changes no
\* chart state; on a mounted name with both arrays provided (empty ones
\* included) the widget's labels and first series are the provided arrays
\* and they have been drawn; widgets under other names, the registry and the
\* set of live widgets are unchanged.
C7_UpdateChartEffect ==
    [][\A n \in ChartNames, p \in ChartPayloads :
          UpdateChartCall(n, p) =>
            /\ charts' = charts /\ live' = live
            /\ \A m \in ChartNames \ {n} : chartData'[m] = chartData[m]
            /\ charts[n] = 0 => chartData' = chartData
            /\ (charts[n] # 0 /\ p.labels.t = "array" /\ p.data.t = "array") =>
                  /\ chartData'[n].labels = p.labels.v
                  /\ chartData'[n].data = p.data.v
                  /\ chartData'[n].drawn =
                        [labels |-> p.labels.v, data |-> p.data.v]]_vars

\* C7 witness: an update with an empty labels array has replaced the two
\* initial labels of the mounted fraud-distribution widget.
C7_EmptyLabelsApplied ==
    /\ last.op = "updateChart" /\ last.arg = "fraudDistribution" /\ last.applied
    /\ charts["fraudDistribution"] # 0
    /\ chartData["fraudDistribution"].labels = <<>>
    /\ chartData["fraudDistribution"].data = <<7>>
    /\ chartData["fraudDistribution"].drawn = [labels |-> <<>>, data |-> <<7>>]

\* C8: updateChart never throws, whatever the name and the payload, and
\* whenever it does not apply the update it logs a warning.
C8_NeverThrowsAlwaysWarns ==
    last.op = "updateChart" =>
        /\ ~last.threw
        /\ ~last.applied => last.warned

(***************************************************************************)
(* Reports (app.js): generateReport, renderReport, closeReport.            *)
(***************************************************************************)
ReportTypes == {"summary", "geographic", "time-analysis", "user-behavior"}

\* reportType.replace('-', ' ').toUpperCase() + ' REPORT'
TitleOf(type) ==
    CASE type = "summary"       -> "SUMMARY REPORT"
      [] type = "geographic"    -> "GEOGRAPHIC REPORT"
      [] type = "time-analysis" -> "TIME ANALYSIS REPORT"
      [] type = "user-behavior" -> "USER BEHAVIOR REPORT"

ReportFields == {"fraud_distribution", "statistics", "location_risk",
                 "hourly_data", "transaction_type"}

\* Top-level fields renderReport dereferences for a report type.
RequiredFields(type) ==
    CASE type = "summary"       -> {"fraud_distribution", "statistics"}
      [] type = "geographic"    -> {"location_risk"}
      [] type = "time-analysis" -> {"hourly_data"}
      [] type = "user-behavior" -> {"transaction_type"}

NullReport == [isNull |-> TRUE, fields |-> {}, full |-> {}]

\* A report payload: the JSON value null, or an object with some of the
\* top-level fields.  Of those, the fields in "full" carry everything the
\* report reads inside them (labels and data; the three statistics; hour
\* and is_fraud in every record of the hourly_data array); the others are
\* there without it ({} for an object, records without hour and is_fraud
\* for hourly_data).
ReportPayloads ==
    {NullReport} \cup
    UNION { {[isNull |-> FALSE, fields |-> f, full |-> c] : c \in SUBSET f} :
            f \in SUBSET ReportFields }

ReportResponses ==
    {[ok |-> FALSE, data |-> NullReport]} \cup
    {[ok |-> TRUE, data |-> d] : d \in ReportPayloads}

\* The destroy step of renderReport with a fault: the old chart is dropped
\* from reportChart and not destroyed.
ForgetOldReport(lv, rc) == lv

\* renderReport step 2: if (reportChart) { reportChart.destroy(); ... }
DestroyOldReport(lv, rc) == IF rc # 0 THEN lv \ {rc} ELSE lv

\* renderReport(type, data): the layout replaces the content, the old chart
\* is destroyed, the configuration is read off the payload (a TypeError when
\* data is null or a top-level field it dereferences is missing; reading
\* labels, data or a statistic off an object that lacks it gives undefined
\* and does not throw, formatNumber(undefined) is '0'), the chart is
\* constructed (a ReferenceError while Chart is undefined).
renderReport(lv, rc, kind, d, lib, type, data) ==
    IF "report-content" \notin d
    THEN [live |-> lv, reportChart |-> rc, kind |-> kind,
          content |-> "error", threw |-> TRUE]
    ELSE LET lv1 == DestroyOldReport(lv, rc)
         IN  IF data.isNull \/ ~(RequiredFields(type) \subseteq data.fields) \/ ~lib
             THEN [live |-> lv1, reportChart |-> 0, kind |-> "",
                   content |-> "chart", threw |-> TRUE]
             ELSE LET id == FreshId(lv1, rc)
                  IN  [live |-> lv1 \cup {id}, reportChart |-> id, kind |-> type,
                       content |-> "chart", threw |-> FALSE]

\* generateReport(reportType) up to its await: the modal is shown, the title
\* and the loading indicator are set, the request is issued.
GenerateReport(type) ==
    /\ Len(reportPending) < MaxPending
    /\ IF "report-result" \notin dom
       THEN /\ last' = Call("generateReport", type, TRUE, FALSE, FALSE, FALSE)
            /\ UNCHANGED <<modalActive, reportTitle, reportContent, reportPending>>
       ELSE /\ modalActive' = TRUE
            /\ IF "report-title" \notin dom
               THEN /\ last' = Call("generateReport", type, TRUE, FALSE, FALSE, FALSE)
                    /\ UNCHANGED <<reportTitle, reportContent, reportPending>>
               ELSE /\ reportTitle' = TitleOf(type)
                    /\ IF "report-content" \notin dom
                       THEN /\ last' = Call("generateReport", type, TRUE, FALSE,
                                            FALSE, FALSE)
                            /\ UNCHANGED <<reportContent, reportPending>>
                       ELSE /\ reportContent' = "loading"
                            /\ reportPending' = Append(reportPending, type)
                            /\ last' = Call("generateReport", type, FALSE, FALSE,
                                            FALSE, TRUE)
    /\ UNCHANGED <<chartLib, dom, chartVars, reportChart, reportKind, runVars,
                   tableVars, alertVars, txPending, alertsPending, searchPending,
                   navVars>>
    /\ UNCHANGED uiVars

Without(q, i) == SubSeq(q, 1, i - 1) \o SubSeq(q, i + 1, Len(q))

\* The response of the i-th report request in flight arrives: renderReport
\* on success, the error text in place of the content on a failed request or
\* on an exception out of renderReport.  last.arg is the report type of the
\* widget that was live when the response arrived.
ReportResponse(i, resp) ==
    /\ i \in 1..Len(reportPending)
    /\ reportPending' = Without(reportPending, i)
    /\ IF resp.ok
       THEN LET r == renderReport(live["report"], reportChart, reportKind, dom,
                                  chartLib, reportPending[i], resp.data)
            IN  /\ live' = [live EXCEPT !["report"] = r.live]
                /\ reportChart' = r.reportChart
                /\ reportKind' = r.kind
                /\ reportContent' = IF r.threw THEN "error" ELSE r.content
                /\ last' = Call("reportResponse", reportKind, FALSE, FALSE,
                                ~r.threw, FALSE)
       ELSE /\ reportContent' = "error"
            /\ last' = Call("reportResponse", reportKind, FALSE, FALSE, FALSE, FALSE)
            /\ UNCHANGED <<live, reportChart, reportKind>>
    /\ UNCHANGED <<chartLib, dom, charts, chartData, modalActive, reportTitle,
                   runVars, tableVars, alertVars, txPending, alertsPending,
                   searchPending, navVars>>
    /\ UNCHANGED uiVars

\* closeReport(): the modal is hidden and the report chart destroyed.
CloseReport ==
    /\ IF "report-result" \notin dom
       THEN /\ last' = Call("closeReport", "", TRUE, FALSE, FALSE, FALSE)
            /\ UNCHANGED <<modalActive, live, reportChart, reportKind>>
       ELSE /\ modalActive' = FALSE
            /\ live' = [live EXCEPT !["report"] =
                           IF reportChart # 0 THEN @ \ {reportChart} ELSE @]
            /\ reportChart' = 0
            /\ reportKind' = ""
            /\ last' = Call("closeReport", "", FALSE, FALSE, TRUE, FALSE)
    /\ UNCHANGED <<chartLib, dom, charts, chartData, reportTitle, reportContent,
                   reportPending, runVars, tableVars, alertVars, txPending,
                   alertsPending, searchPending, navVars>>
    /\ UNCHANGED uiVars

InitReport == \E lib \in BOOLEAN : PageLoaded(AllElems, lib)

NextReport ==
    \/ ChartLibLoads
    \/ \E t \in ReportTypes : GenerateReport(t)
    \/ \E i \in 1..MaxPending, r \in ReportResponses : ReportResponse(i, r)
    \/ CloseReport

SpecReport == InitReport /\ [][NextReport]_vars

\* C1: under any interleaving of generateReport calls, closeReport calls and
\* report responses (success or failure) at most one report widget is
\* constructed and not destroyed, and it is the one reportChart holds; a
\* response that renders leaves exactly one, the previous one having been
\* destroyed first.
C1_OneLiveReportWidget ==
    /\ Cardinality(live["report"]) <= 1
    /\ live["report"] = IF reportChart = 0 THEN {} ELSE {reportChart}
    /\ (last.op = "reportResponse" /\ last.applied) =>
           Cardinality(live["report"]) = 1

\* C1 witness: a geographic report was rendered while the widget of a
\* summary report was live; the geographic widget is the only live one.
C1_SummaryThenGeographic ==
    /\ last.op = "reportResponse" /\ last.applied /\ last.arg = "summary"
    /\ reportKind = "geographic"
    /\ reportChart # 0
    /\ live["report"] = {reportChart}

\* generateReport fails: the report request failed, or its payload is null
\* or lacks a field its report type expects: a top-level field, or inside
\* one labels or data (fraud_distribution, location_risk,
\* transaction_type), a statistic (statistics), hour or is_fraud
\* (the records of hourly_data).
ReportFails(type, resp) ==
    \/ ~resp.ok
    \/ resp.data.isNull
    \/ ~(RequiredFields(type) \subseteq resp.data.full)

\* C17: when the report request fails, or the returned payload lacks the
\* fields its report type expects, the report content is the error message,
\* no report widget is constructed, and no exception leaves generateReport.
C17_FailedReportShowsError ==
    [][\A i \in 1..Len(reportPending), r \in ReportResponses :
          (ReportResponse(i, r) /\ ReportFails(reportPending[i], r)) =>
             /\ reportContent' = "error"
             /\ live'["report"] \subseteq live["report"]
             /\ reportChart' \in {0, reportChart}
             /\ ~last'.threw /\ ~last'.applied]_vars

(***************************************************************************)
(* Numbers and their display text.                                         *)
(***************************************************************************)
Num(n)   == [t |-> "number", n |-> n]
NoNum    == [t |-> "undefined", n |-> 0]

Digit(d) ==
    CASE d = 0 -> "0" [] d = 1 -> "1" [] d = 2 -> "2" [] d = 3 -> "3"
      [] d = 4 -> "4" [] d = 5 -> "5" [] d = 6 -> "6" [] d = 7 -> "7"
      [] d = 8 -> "8" [] d = 9 -> "9"

\* Number -> String of a non-negative integer.
RECURSIVE Dec(_)
Dec(n) == IF n < 10 THEN Digit(n) ELSE Dec(n \div 10) \o Digit(n % 10)

\* Number.prototype.toLocaleString() of a non-negative integer (en-US):
\* digits in groups of three, separated by commas.
RECURSIVE toLocaleString(_)
toLocaleString(n) ==
    IF n < 1000
    THEN Dec(n)
    ELSE toLocaleString(n \div 1000) \o "," \o Digit((n % 1000) \div 100)
         \o Digit((n % 100) \div 10) \o Digit(n % 10)

\* formatNumber(num): num ? num.toLocaleString() : '0'
formatNumber(x) ==
    IF x.t = "number" /\ x.n # 0 THEN toLocaleString(x.n) ELSE "0"

\* stats.fraud_rate + '%'
RateText(x) == IF x.t = "number" THEN Dec(x.n) \o "%" ELSE "undefined%"

(***************************************************************************)
(* loadDashboardData: the stat cards.                                      *)
(***************************************************************************)
StatOrder == <<"total-transactions", "fraud-transactions",
               "legit-transactions", "fraud-rate">>

StatsPayload(a, b, c, r) ==
    [isNull |-> FALSE, total |-> a, fraud |-> b, legit |-> c, rate |-> r]

NullStats == [isNull |-> TRUE, total |-> NoNum, fraud |-> NoNum,
              legit |-> NoNum, rate |-> NoNum]

StatsPayloads ==
    { NullStats,
      StatsPayload(NoNum, NoNum, NoNum, NoNum),
      StatsPayload(Num(0), Num(0), Num(0), Num(0)),
      StatsPayload(Num(1234), Num(7), Num(1227), Num(3)) }

StatsResponses ==
    {[ok |-> FALSE, data |-> NullStats]} \cup
    {[ok |-> TRUE, data |-> p] : p \in StatsPayloads}

StatText(p, i) ==
    CASE i = 1 -> formatNumber(p.total)
      [] i = 2 -> formatNumber(p.fraud)
      [] i = 3 -> formatNumber(p.legit)
      [] i = 4 -> RateText(p.rate)

\* The four textContent assignments in order; a null payload or an absent
\* element is a TypeError at the assignment that meets it.
RECURSIVE writeStats(_, _, _, _)
writeStats(st, d, p, i) ==
    IF i > Len(StatOrder)
    THEN [stats |-> st, threw |-> FALSE]
    ELSE IF p.isNull \/ StatOrder[i] \notin d
         THEN [stats |-> st, threw |-> TRUE]
         ELSE writeStats([st EXCEPT ![StatOrder[i]] = StatText(p, i)], d, p, i + 1)

\* statsStep with a fault: the first card is reset before the response is
\* known to be good.
statsStepResetFirst(st, d, resp) ==
    IF resp.ok
    THEN writeStats(st, d, resp.data, 1)
    ELSE [stats |-> [st EXCEPT !["total-transactions"] = "0"], threw |-> TRUE]

\* loadDashboardData lines 61-67: await the statistics, then write the cards.
statsStep(st, d, resp) ==
    IF resp.ok
    THEN writeStats(st, d, resp.data, 1)
    ELSE [stats |-> st, threw |-> TRUE]

(***************************************************************************)
(* Transaction records, the two tables and the alert list.                 *)
(***************************************************************************)
RecentCap == 10
AlertCap  == 10

\* is_fraud as received: the JSON numbers 0 and 1.
Flags == {"0", "1"}

\* tx.is_fraud === 1
IsOne(f) == f = "1"

\* ToBoolean(tx.is_fraud)
TruthyFlag(f) == f \in {"1", "true"}

Tx(i, f) == [id |-> i, is_fraud |-> f]

Take(q, n) == SubSeq(q, 1, IF Len(q) < n THEN Len(q) ELSE n)

RECURSIVE Filter(_, _)
Filter(q, i) ==
    IF i > Len(q) THEN <<>>
    ELSE (IF IsOne(q[i].is_fraud) THEN <<q[i]>> ELSE <<>>) \o Filter(q, i + 1)

Row(tx) == [kind |-> "tx", id |-> tx.id,
            status |-> IF TruthyFlag(tx.is_fraud) THEN "Fraud" ELSE "Legit"]

Rows(txs) == [i \in 1..Len(txs) |-> Row(txs[i])]

EmptyRecentRows == <<[kind |-> "empty", id |-> 0, status |-> "No recent transactions"]>>
EmptyAllRows    == <<[kind |-> "empty", id |-> 0, status |-> "No transactions found."]>>
ErrorRows       == <<[kind |-> "error", id |-> 0, status |-> "Error loading transactions."]>>

AlertCard(tx) == [kind |-> "alert", id |-> tx.id]
NoFraudCard   == [kind |-> "nofraud", id |-> 0]
ErrorCard     == [kind |-> "error", id |-> 0]

\* A /api/transactions payload: null, an object without "transactions", or
\* an object with the list.
NullPage     == [isNull |-> TRUE, hasList |-> FALSE, txs |-> <<>>]
NoListPage   == [isNull |-> FALSE, hasList |-> FALSE, txs |-> <<>>]
PageOf(txs)  == [isNull |-> FALSE, hasList |-> TRUE, txs |-> txs]

\* data.transactions || []
ListOf(data) == IF data.hasList THEN data.txs ELSE <<>>

\* updateRecentTransactions(txs)
updateRecentTransactions(recent, d, txs) ==
    IF "recent-transactions-body" \notin d THEN recent
    ELSE IF Len(txs) = 0 THEN EmptyRecentRows
    ELSE Rows(txs)

\* loadTransactionsStep with a fault: the full table is cut like the recent
\* one.
loadTransactionsStepAllCut(recent, all, d, resp) ==
    IF resp.ok /\ ~resp.data.isNull
    THEN LET txs == Take(ListOf(resp.data), RecentCap)
         IN  [recent |-> updateRecentTransactions(recent, d, txs),
              all    |-> IF "all-transactions-body" \notin d THEN all
                         ELSE IF Len(txs) = 0 THEN EmptyAllRows
                         ELSE Rows(txs),
              caught |-> FALSE]
    ELSE [recent |-> recent,
          all    |-> IF "all-transactions-body" \in d THEN ErrorRows ELSE all,
          caught |-> TRUE]

\* loadTransactions after its await: both tables on success, the error row
\* in the full table when the request failed or the payload is null.
loadTransactionsStep(recent, all, d, resp) ==
    IF resp.ok /\ ~resp.data.isNull
    THEN LET txs == ListOf(resp.data)
         IN  [recent |-> updateRecentTransactions(recent, d, Take(txs, RecentCap)),
              all    |-> IF "all-transactions-body" \notin d THEN all
                         ELSE IF Len(txs) = 0 THEN EmptyAllRows
                         ELSE Rows(txs),
              caught |-> FALSE]
    ELSE [recent |-> recent,
          all    |-> IF "all-transactions-body" \in d THEN ErrorRows ELSE all,
          caught |-> TRUE]

\* loadAlertsStep with a fault: the badge counts the cards shown rather
\* than the flagged records.
loadAlertsStepBadgeCapped(cards, badge, d, resp) ==
    IF resp.ok /\ ~resp.data.isNull
    THEN LET fraudTxs == Filter(ListOf(resp.data), 1)
             shown    == Take(fraudTxs, AlertCap)
         IN  [badge  |-> IF "alert-badge" \in d THEN Len(shown) ELSE badge,
              cards  |-> IF Len(fraudTxs) = 0 THEN <<NoFraudCard>>
                         ELSE [i \in 1..Len(shown) |-> AlertCard(shown[i])],
              caught |-> FALSE]
    ELSE [badge |-> badge, cards |-> <<ErrorCard>>, caught |-> TRUE]

\* The .then / .catch of loadAlerts: badge with the number of records whose
\* flag is 1, then the "no fraud" card or the first AlertCap alert cards.
loadAlertsStep(cards, badge, d, resp) ==
    IF resp.ok /\ ~resp.data.isNull
    THEN LET fraudTxs == Filter(ListOf(resp.data), 1)
             shown    == Take(fraudTxs, AlertCap)
         IN  [badge  |-> IF "alert-badge" \in d THEN Len(fraudTxs) ELSE badge,
              cards  |-> IF Len(fraudTxs) = 0 THEN <<NoFraudCard>>
                         ELSE [i \in 1..Len(shown) |-> AlertCard(shown[i])],
              caught |-> FALSE]
    ELSE [badge |-> badge, cards |-> <<ErrorCard>>, caught |-> TRUE]

(***************************************************************************)
(* refreshAllData (app.js): loadDashboardData with loadChartData, then     *)
(* loadTransactions, then loadAlerts.  run.pc is the await the invocation  *)
(* is suspended at; run.started are the phases it has called.              *)
(***************************************************************************)
RunChartPayloads == { NullPayload, Payload(Array(<<"A">>), Array(<<7>>)) }

RunChartResponses ==
    {[ok |-> FALSE, data |-> NullPayload]} \cup
    {[ok |-> TRUE, data |-> p] : p \in RunChartPayloads}

RunPages == { NullPage, NoListPage, PageOf(<<>>),
              PageOf(<<Tx(1, "1"), Tx(2, "0")>>) }

RunPageResponses ==
    {[ok |-> FALSE, data |-> NullPage]} \cup
    {[ok |-> TRUE, data |-> p] : p \in RunPages}

\* refreshAllData line 27: loadTransactions() is called and issues its request.
EnterTransactions(r) ==
    [r EXCEPT !.pc = "tx", !.started = @ \cup {"transactions"}]

\* afterDashboard with a fault: loadDashboardData without its try/catch, so
\* that a failure rejects refreshAllData.
afterDashboardUncaught(r, failed) ==
    IF failed
    THEN [r EXCEPT !.pc = "done", !.rejected = TRUE]
    ELSE EnterTransactions(r)

\* The catch of loadDashboardData (lines 72-74): a failure is logged and the
\* function returns normally to refreshAllData.
afterDashboard(r, failed) ==
    EnterTransactions([r EXCEPT !.dashErr = failed])

\* The catch of loadChartData (lines 93-95), then the return through
\* loadDashboardData to refreshAllData.
afterCharts(r, failed) ==
    EnterTransactions([r EXCEPT !.chartErr = failed])

\* loadChartData lines 88-91: the four updateChart calls in order; an
\* exception in one skips the rest.
RECURSIVE applyCharts(_, _, _, _)
applyCharts(ch, cd, resp, i) ==
    IF i > Len(ChartOrder)
    THEN [chartData |-> cd, threw |-> FALSE]
    ELSE LET u == updateChart(ch, cd, ChartOrder[i], resp[ChartOrder[i]])
         IN  IF u.threw
             THEN [chartData |-> u.chartData, threw |-> TRUE]
             ELSE applyCharts(ch, u.chartData, resp, i + 1)

\* refreshAllData() up to its first await: loadDashboardData has issued the
\* statistics request.
FirstAwait == [IdleRun EXCEPT !.pc = "stats", !.started = {"dashboard"}]

\* A handleRefresh that has not called refreshAllData yet.
NoRun == [IdleRun EXCEPT !.pc = "none"]

NoFetch == [n \in ChartNames |-> "none"]
NoResp  == [n \in ChartNames |-> NullPayload]

\* An invocation is a call of refreshAllData together with the handleRefresh
\* that awaits it (refresh.pc is "idle" for the call made by initializeApp).
\* Invocation 0 is the latest; older[i] still had a request in flight when a
\* later one began, and is forgotten when its last response has arrived.
Latest == [run |-> run, chartFetch |-> chartFetch, chartResp |-> chartResp,
           refresh |-> refresh]

Invocation(i) == IF i = 0 THEN Latest ELSE older[i]

Invocations == 0..MaxOlder

\* The invocation awaits a response.
InFlight(t) ==
    t.refresh.pc \in {"post", "running"} \/ t.run.pc \in {"stats", "charts", "tx"}

\* A response to a request of the invocation can still arrive.
Active(t) == InFlight(t) \/ \E n \in ChartNames : t.chartFetch[n] = "pending"

\* Invocation i goes on as t.
Becomes(i, t) ==
    IF i = 0
    THEN /\ run' = t.run
         /\ chartFetch' = t.chartFetch
         /\ chartResp' = t.chartResp
         /\ refresh' = t.refresh
         /\ UNCHANGED older
    ELSE /\ older' = IF Active(t) THEN [older EXCEPT ![i] = t]
                   ELSE Without(older, i)
         /\ UNCHANGED <<run, chartFetch, chartResp, refresh>>

\* What refreshAllData() does up to the await of the statistics request.
beginRun(t) ==
    [t EXCEPT !.run = FirstAwait, !.chartFetch = NoFetch, !.chartResp = NoResp]

\* What no step of an invocation touches.
uiOther == <<spinning, analysis, analyzePending, exportPending, notice, ready,
             chartTimer>>

\* initializeApp(), by its 100 ms timer: refreshAllData() is called once, on
\* start-up.
StartRefresh ==
    /\ run.pc = "idle"
    /\ Becomes(0, beginRun(Latest))
    /\ last' = Call("refreshAllData", "", FALSE, FALSE, FALSE, TRUE)
    /\ UNCHANGED <<chartLib, dom, chartVars, reportVars, stats, tableVars,
                   alertVars, txPending, alertsPending, searchPending, navVars>>
    /\ UNCHANGED <<caption, spinTimers, analysisHidden, uiOther>>

\* The /api/stats response of invocation i: the cards are written and the
\* four chart requests issued, or the failure is caught and the run moves on
\* to loadTransactions.
StatsResponseOf(i, resp) ==
    /\ i \in 0..Len(older)
    /\ Invocation(i).run.pc = "stats"
    /\ LET t == Invocation(i)
           w == statsStep(stats, dom, resp)
       IN  /\ stats' = w.stats
           /\ IF w.threw
              THEN /\ Becomes(i, [t EXCEPT !.run = afterDashboard(t.run, TRUE)])
                   /\ tableLatest' = "tx"
              ELSE /\ Becomes(i, [t EXCEPT !.run.pc = "charts",
                                           !.chartFetch = [n \in ChartNames |-> "pending"]])
                   /\ UNCHANGED tableLatest
    /\ last' = Call("statsResponse", "", FALSE, FALSE, FALSE, FALSE)
    /\ UNCHANGED <<chartLib, dom, chartVars, reportVars, recentRows, allRows,
                   alertVars, txPending, alertsPending, searchPending, navVars>>
    /\ UNCHANGED <<caption, spinTimers, analysisHidden, uiOther>>

StatsResponse(resp) == StatsResponseOf(0, resp)

\* One chart response of invocation i.  Promise.all rejects with the first
\* failure and fulfils when the fourth request has succeeded; a response
\* that arrives after it has rejected is dropped.
ChartResponseOf(i, n, resp) ==
    /\ i \in 0..Len(older)
    /\ Invocation(i).chartFetch[n] = "pending"
    /\ LET t  == Invocation(i)
           cf == [t.chartFetch EXCEPT ![n] = IF resp.ok THEN "ok" ELSE "fail"]
           cr == IF resp.ok THEN [t.chartResp EXCEPT ![n] = resp.data]
                 ELSE t.chartResp
           t1 == [t EXCEPT !.chartFetch = cf, !.chartResp = cr]
       IN  IF t.run.pc # "charts"
           THEN /\ Becomes(i, t1)
                /\ UNCHANGED <<chartData, tableLatest>>
           ELSE IF ~resp.ok
           THEN /\ Becomes(i, [t1 EXCEPT !.run = afterCharts(t.run, TRUE)])
                /\ tableLatest' = "tx"
                /\ UNCHANGED chartData
           ELSE IF \A m \in ChartNames : cf[m] = "ok"
           THEN LET u == applyCharts(charts, chartData, cr, 1)
                IN  /\ chartData' = u.chartData
                    /\ Becomes(i, [t1 EXCEPT !.run = afterCharts(t.run, u.threw)])
                    /\ tableLatest' = "tx"
           ELSE /\ Becomes(i, t1)
                /\ UNCHANGED <<chartData, tableLatest>>
    /\ last' = Call("chartResponse", "", FALSE, FALSE, FALSE, FALSE)
    /\ UNCHANGED <<chartLib, dom, charts, live, reportVars, stats, recentRows,
                   allRows, alertVars, txPending, alertsPending, searchPending,
                   navVars>>
    /\ UNCHANGED <<caption, spinTimers, analysisHidden, uiOther>>

ChartResponse(n, resp) == ChartResponseOf(0, n, resp)

\* handleRefresh after "await refreshAllData()" (lines 44-49): the caption,
\* when the header has one, is set from the POST response (a TypeError on a
\* null response, caught and logged), then the analysis result, when it
\* exists, is hidden.
handleRefreshRest(rf, cap, hid, d) ==
    IF "header-caption" \in d /\ rf.resp.isNull
    THEN [refresh |-> [rf EXCEPT !.pc = "failed"], caption |-> cap, hidden |-> hid]
    ELSE [refresh |-> [rf EXCEPT !.pc = "done"],
          caption |-> IF "header-caption" \in d THEN CaptionOf(rf.resp) ELSE cap,
          hidden  |-> IF "analysis-result" \in d THEN TRUE ELSE hid]

\* The /api/transactions response of invocation i: the tables are rendered
\* (or the failure caught), loadAlerts() is called, which issues its request
\* when #alerts-list exists and returns undefined, and refreshAllData
\* resumes from "await undefined" and completes; the handleRefresh awaiting
\* it goes on in the same turn.
RunTxResponseOf(i, resp) ==
    /\ i \in 0..Len(older)
    /\ Invocation(i).run.pc = "tx"
    /\ "alerts-list" \in dom => alertsPending < MaxPending
    /\ LET t  == Invocation(i)
           x  == loadTransactionsStep(recentRows, allRows, dom, resp)
           r1 == [t.run EXCEPT !.txErr = x.caught,
                               !.started = @ \cup {"alerts"},
                               !.pc = "done"]
       IN  /\ recentRows' = x.recent
           /\ allRows' = x.all
           /\ IF t.refresh.pc = "running"
              THEN LET h == handleRefreshRest(t.refresh, caption, analysisHidden, dom)
                   IN  /\ Becomes(i, [t EXCEPT !.run = r1, !.refresh = h.refresh])
                       /\ caption' = h.caption
                       /\ analysisHidden' = h.hidden
                       /\ spinTimers' = spinTimers + 1
              ELSE /\ Becomes(i, [t EXCEPT !.run = r1])
                   /\ UNCHANGED <<caption, analysisHidden, spinTimers>>
    /\ alertsPending' = IF "alerts-list" \in dom THEN alertsPending + 1
                        ELSE alertsPending
    /\ last' = Call("txResponse", "", FALSE, FALSE, FALSE, "alerts-list" \in dom)
    /\ UNCHANGED <<chartLib, dom, chartVars, reportVars, stats, tableLatest,
                   alertVars, txPending, searchPending, navVars>>
    /\ UNCHANGED uiOther

RunTxResponse(resp) == RunTxResponseOf(0, resp)

\* The response of a loadAlerts request.
AlertsResponse(resp) ==
    /\ alertsPending > 0
    /\ alertsPending' = alertsPending - 1
    /\ LET a == loadAlertsStep(alertCards, alertBadge, dom, resp)
       IN  /\ alertCards' = a.cards
           /\ alertBadge' = a.badge
           /\ last' = Call("alertsResponse", "", FALSE, FALSE, ~a.caught, FALSE)
    /\ UNCHANGED <<chartLib, dom, chartVars, reportVars, runVars, tableVars,
                   txPending, searchPending, navVars>>
    /\ UNCHANGED uiVars

(***************************************************************************)
(* handleRefresh: the refresh button.                                      *)
(***************************************************************************)
RefreshPayloads == { NullRefresh, RefreshPayload("a.csv", 10) }

RefreshResponses ==
    {[ok |-> FALSE, data |-> NullRefresh]} \cup
    {[ok |-> TRUE, data |-> p] : p \in RefreshPayloads}

\* Click on #refresh-btn: handleRefresh up to the await of POST
\* /api/refresh.  The invocation that was the latest is kept with the older
\* ones when a response to it can still arrive.
RefreshClick ==
    /\ spinTimers < MaxPending
    /\ Active(Latest) => Len(older) < MaxOlder
    /\ older' = IF Active(Latest) THEN Append(older, Latest) ELSE older
    /\ refresh' = [pc |-> "post", resp |-> NullRefresh]
    /\ run' = NoRun
    /\ chartFetch' = NoFetch
    /\ chartResp' = NoResp
    /\ spinning' = TRUE
    /\ last' = Call("handleRefresh", "", FALSE, FALSE, FALSE, TRUE)
    /\ UNCHANGED <<chartLib, dom, chartVars, reportVars, stats, tableVars,
                   alertVars, txPending, alertsPending, searchPending, navVars,
                   caption, spinTimers, analysisVars, exportPending, notice, ready,
                   chartTimer>>

\* postFailed with a fault: the failure of the POST goes unnoticed.
postFailedIgnored(resp) == FALSE

\* fetchAPI: a transport error rejects, and so does a response that is not ok.
postFailed(resp) == ~resp.ok

\* The POST /api/refresh response of invocation i: on failure the catch logs
\* it and the finally arms the 500 ms timer; on success refreshAllData() is
\* called.
RefreshPostResponseOf(i, resp) ==
    /\ i \in 0..Len(older)
    /\ Invocation(i).refresh.pc = "post"
    /\ LET t == Invocation(i)
       IN  IF postFailed(resp)
           THEN /\ Becomes(i, [t EXCEPT !.refresh.pc = "failed"])
                /\ spinTimers' = spinTimers + 1
                /\ last' = Call("refreshPost", "", FALSE, FALSE, FALSE, FALSE)
           ELSE /\ Becomes(i, beginRun([t EXCEPT !.refresh =
                                  [pc |-> "running", resp |-> resp.data]]))
                /\ last' = Call("refreshAllData", "", FALSE, FALSE, FALSE, TRUE)
                /\ UNCHANGED spinTimers
    /\ UNCHANGED <<chartLib, dom, chartVars, reportVars, stats, tableVars,
                   alertVars, txPending, alertsPending, searchPending, navVars>>
    /\ UNCHANGED <<caption, analysisHidden, uiOther>>

RefreshPostResponse(resp) == RefreshPostResponseOf(0, resp)

\* The 500 ms timer of handleRefresh's finally fires.
StopSpin ==
    /\ spinTimers > 0
    /\ spinTimers' = spinTimers - 1
    /\ spinning' = FALSE
    /\ last' = NoCall
    /\ UNCHANGED <<chartLib, dom, chartVars, reportVars, runVars, tableVars,
                   alertVars, txPending, alertsPending, searchPending, navVars,
                   refresh, caption, analysisVars, exportPending, notice, ready, chartTimer>>

\* The complete document, and the documents that lack one of the elements
\* the code tests for.
DomsOneMissing == {AllElems} \cup {AllElems \ {e} : e \in GuardedElems}

InitRefresh ==
    \E d \in DomsOneMissing :
        \/ PageLoaded(d, TRUE)
        \/ PageCharted(d)

NextRefresh ==
    \/ StartRefresh
    \/ \E r \in StatsResponses : StatsResponse(r)
    \/ \E n \in ChartNames, r \in RunChartResponses : ChartResponse(n, r)
    \/ \E r \in RunPageResponses : RunTxResponse(r)
    \/ \E r \in RunPageResponses : AlertsResponse(r)

SpecRefresh == InitRefresh /\ [][NextRefresh]_vars

(***************************************************************************)
(* The stat cards over the start-up run and the refreshes clicked after    *)
(* it, overlapping or not: charts unmounted, one outcome per later         *)
(* request, every outcome of the statistics request.                       *)
(***************************************************************************)
OnePage == PageOf(<<Tx(1, "1"), Tx(2, "0")>>)

GoodStats == StatsPayload(Num(1234), Num(7), Num(1227), Num(3))

GoodChart == Payload(Array(<<"A">>), Array(<<7>>))

\* The start-up run of refreshAllData as the specifications of the handlers
\* draw it: the statistics request fails or succeeds, the first chart
\* request fails, the transactions request succeeds.
StartupRun ==
    \/ \E r \in {[ok |-> FALSE, data |-> NullStats], [ok |-> TRUE, data |-> GoodStats]} :
          StatsResponse(r)
    \/ ChartResponse("fraudDistribution", [ok |-> FALSE, data |-> NullPayload])
    \/ RunTxResponse([ok |-> TRUE, data |-> OnePage])

\* The start-up run cut short: the statistics request fails, the
\* transactions request succeeds.
StartupRunCut ==
    \/ StatsResponse([ok |-> FALSE, data |-> NullStats])
    \/ RunTxResponse([ok |-> TRUE, data |-> OnePage])

InitStats == AppStarted(AllElems, TRUE, EmptyRegistry)

NextStats ==
    \/ RefreshClick
    \/ StopSpin
    \/ \E i \in Invocations :
          \/ RefreshPostResponseOf(i, [ok |-> TRUE, data |-> RefreshPayload("a.csv", 10)])
          \/ \E r \in StatsResponses : StatsResponseOf(i, r)
          \/ ChartResponseOf(i, "fraudDistribution", [ok |-> FALSE, data |-> NullPayload])
          \/ RunTxResponseOf(i, [ok |-> TRUE, data |-> OnePage])
    \/ AlertsResponse([ok |-> TRUE, data |-> OnePage])

SpecStats == InitStats /\ [][NextStats]_vars

(***************************************************************************)
(* Properties of refreshAllData and loadDashboardData.                     *)
(***************************************************************************)
AllPhases == {"dashboard", "transactions", "alerts"}

\* C2: within one refreshAllData run the transaction-list phase starts only
\* after the dashboard phase (the statistics and all four chart requests)
\* has completed, the alert-list phase only after the transaction-list phase
\* has completed, and refreshAllData completes only after the alert-list
\* phase has handled its response.
C2_PhasesStrictlySequential ==
    /\ "transactions" \in run.started =>
          /\ run.pc \notin {"stats", "charts"}
          /\ \A n \in ChartNames : chartFetch[n] # "pending"
    /\ "alerts" \in run.started => run.pc = "done"
    /\ run.pc = "done" => alertsPending = 0

\* C3: whatever requests fail, refreshAllData never rejects; a failure in the
\* dashboard phase or in the charts does not keep the transaction-list phase
\* from being called, a failure of the transaction list does not keep the
\* alert-list phase from being called, and a completed run has called all
\* three.
C3_AllPhasesAttempted ==
    /\ ~run.rejected
    /\ (run.dashErr \/ run.chartErr) => "transactions" \in run.started
    /\ run.txErr => "alerts" \in run.started
    /\ run.pc = "done" => run.started = AllPhases
    /\ (run.pc = "done" /\ "alerts-list" \in dom /\ last.op = "txResponse") =>
           alertsPending > 0

\* C3 witness: a run whose statistics request and whose transaction request
\* both failed has completed, having called all three phases and issued the
\* alert request.
C3_FailuresYetAllPhases ==
    /\ run.pc = "done" /\ run.dashErr /\ run.txErr
    /\ run.started = AllPhases
    /\ alertsPending > 0

\* C4: once the chart phase of a run is over, every chart whose own request
\* succeeded (with both arrays, its widget mounted) shows the data of that
\* response, whether or not another chart request failed.
C4_EachChartUpdatedOnOwnSuccess ==
    \A n \in ChartNames :
        ( /\ run.pc \in {"tx", "done"}
          /\ chartFetch[n] = "ok"
          /\ charts[n] # 0
          /\ ~chartResp[n].isNull
          /\ chartResp[n].labels.t = "array" /\ chartResp[n].data.t = "array" )
        => /\ chartData[n].labels = chartResp[n].labels.v
           /\ chartData[n].data = chartResp[n].data.v

\* C5: when loadDashboardData fails (its catch runs), the four stat cards
\* show what they showed when it was entered, none of them overwritten, and
\* nothing is thrown to refreshAllData.
C5_FailedDashboardKeepsStats ==
    [][\A i \in Invocations, r \in StatsResponses :
          (StatsResponseOf(i, r) /\ statsStep(stats, dom, r).threw) =>
             /\ stats' = stats
             /\ ~run'.rejected
             /\ \A j \in 1..Len(older') : ~older'[j].run.rejected]_vars

\* C5 witness: after a run that wrote the cards, a run whose statistics
\* request failed has left all four as the earlier run wrote them.
C5_FailedAfterSuccess ==
    /\ last.op = "statsResponse" /\ run.dashErr
    /\ stats = [s \in StatIds |->
                   CASE s = "total-transactions" -> "1,234"
                     [] s = "fraud-transactions" -> "7"
                     [] s = "legit-transactions" -> "1,227"
                     [] s = "fraud-rate"         -> "3%"]

(***************************************************************************)
(* Navigation, the global search and the loaders called from them.         *)
(***************************************************************************)
\* showPage with a fault: the other page sections are not hidden first.
showPageKeepOthers(vis, d, p) == vis \cup {p}

\* Every .page gets class "hidden", then the section of p loses it; when
\* the document has no such section, getElementById gives null and the
\* handler throws with every section hidden.
showPage(vis, d, p) == IF PageElem(p) \in d THEN {p} ELSE {}

\* Every .nav-item loses class "active", then the item of p gets it.
markActive(act, p) == {p}

\* loadAlerts() up to its return: a request is issued when #alerts-list
\* exists.
loadAlertsCall(d, pending) == IF "alerts-list" \in d THEN pending + 1 ELSE pending

\* window.loadAlerts() called on its own.
LoadAlerts ==
    /\ alertsPending < MaxPending
    /\ alertsPending' = loadAlertsCall(dom, alertsPending)
    /\ last' = Call("loadAlerts", "", FALSE, FALSE, FALSE, "alerts-list" \in dom)
    /\ UNCHANGED <<chartLib, dom, chartVars, reportVars, runVars, tableVars,
                   alertVars, txPending, searchPending, navVars>>
    /\ UNCHANGED uiVars

\* The click handler of the nav item whose data-page is p.  Without the
\* section of p the TypeError leaves the handler before the nav items are
\* touched and before a loader is called.
NavClick(p) ==
    /\ visible' = showPage(visible, dom, p)
    /\ IF PageElem(p) \notin dom
       THEN /\ last' = Call("navClick", p, TRUE, FALSE, FALSE, FALSE)
            /\ UNCHANGED <<active, txPending, alertsPending, tableLatest>>
       ELSE /\ p = "transactions" => txPending < MaxPending
            /\ p = "alerts" => alertsPending < MaxPending
            /\ active' = markActive(active, p)
            /\ txPending' = IF p = "transactions" THEN txPending + 1 ELSE txPending
            /\ alertsPending' = IF p = "alerts" THEN loadAlertsCall(dom, alertsPending)
                                ELSE alertsPending
            /\ tableLatest' = IF p = "transactions" THEN "tx" ELSE tableLatest
            /\ last' = Call("navClick", p, FALSE, FALSE, TRUE,
                            p = "transactions" \/ (p = "alerts" /\ "alerts-list" \in dom))
    /\ UNCHANGED <<chartLib, dom, chartVars, reportVars, runVars, recentRows,
                   allRows, alertVars, searchPending>>
    /\ UNCHANGED uiVars

\* window.loadTransactions() called on its own: the request is issued and
\* no page is switched.
LoadTransactions ==
    /\ txPending < MaxPending
    /\ txPending' = txPending + 1
    /\ tableLatest' = "tx"
    /\ last' = Call("loadTransactions", "", FALSE, FALSE, FALSE, TRUE)
    /\ UNCHANGED <<chartLib, dom, chartVars, reportVars, runVars, recentRows,
                   allRows, alertVars, alertsPending, searchPending, navVars>>
    /\ UNCHANGED uiVars

\* The response of a loadTransactions() call made by a nav click or on its
\* own.
TxResponse(resp) ==
    /\ txPending > 0
    /\ txPending' = txPending - 1
    /\ LET t == loadTransactionsStep(recentRows, allRows, dom, resp)
       IN  /\ recentRows' = t.recent
           /\ allRows' = t.all
           /\ last' = Call("txResponse", "", FALSE, FALSE, ~t.caught, FALSE)
    /\ UNCHANGED <<chartLib, dom, chartVars, reportVars, runVars, tableLatest,
                   alertVars, alertsPending, searchPending, navVars>>
    /\ UNCHANGED uiVars

\* What the search box holds when Enter is released: nothing, blanks, a word.
Queries == {"", " ", "x"}

\* searchInput.value.trim()
trim(q) == IF q = " " THEN "" ELSE q

\* keyup with Enter in #global-search: a request when the trimmed text is
\* not empty.
SearchSubmit(q) ==
    /\ searchPending < MaxPending
    /\ searchPending' = IF trim(q) # "" THEN searchPending + 1 ELSE searchPending
    /\ tableLatest' = IF trim(q) # "" THEN "search" ELSE tableLatest
    /\ last' = Call("search", q, FALSE, FALSE, FALSE, trim(q) # "")
    /\ UNCHANGED <<chartLib, dom, chartVars, reportVars, runVars, recentRows,
                   allRows, alertVars, txPending, alertsPending, navVars>>
    /\ notice' = ""
    /\ UNCHANGED <<refreshVars, analysisVars, exportPending, ready, chartTimer>>

\* /api/search results: null, an object that is no array, or an array.
SearchResults == { NullPage, NoListPage, PageOf(<<>>),
                   PageOf(<<Tx(3, "1"), Tx(4, "0")>>) }

SearchResponses ==
    {[ok |-> FALSE, data |-> NullPage]} \cup
    {[ok |-> TRUE, data |-> p] : p \in SearchResults}

\* The test of the search handler with a fault: the number of results is
\* not looked at.
searchRendersAlways(d, resp) ==
    resp.ok /\ ~resp.data.isNull /\ "all-transactions-body" \in d

\* if (tbody && results.length > 0), reached when the request succeeded and
\* results is not null.
searchRenders(d, resp) ==
    /\ resp.ok /\ ~resp.data.isNull
    /\ "all-transactions-body" \in d
    /\ Len(ListOf(resp.data)) > 0

\* The continuation of the search handler: with the table present and at
\* least one result the rows are written and the transactions page shown;
\* a failed request or a null result is caught, and so is the TypeError
\* when the document has no transactions section, thrown after the rows
\* were written and every section hidden.
SearchResponse(resp) ==
    /\ searchPending > 0
    /\ searchPending' = searchPending - 1
    /\ IF searchRenders(dom, resp)
       THEN /\ allRows' = Rows(resp.data.txs)
            /\ visible' = showPage(visible, dom, "transactions")
            /\ active' = IF PageElem("transactions") \in dom
                         THEN markActive(active, "transactions") ELSE active
            /\ last' = Call("searchResponse", "", FALSE, FALSE, TRUE, FALSE)
       ELSE /\ UNCHANGED <<allRows, navVars>>
            /\ last' = Call("searchResponse", "", FALSE, FALSE, FALSE, FALSE)
    /\ UNCHANGED <<chartLib, dom, chartVars, reportVars, runVars, recentRows,
                   tableLatest, alertVars, txPending, alertsPending>>
    /\ notice' = ""
    /\ UNCHANGED <<refreshVars, analysisVars, exportPending, ready, chartTimer>>

(***************************************************************************)
(* loadAlerts on pages of MaxPage records, and on short ones.              *)
(***************************************************************************)
\* n records with ids 1..n of which k are flagged: the first k, or the
\* last k.
FlaggedPage(n, k, first) ==
    PageOf([i \in 1..n |->
              Tx(i, IF (first /\ i <= k) \/ (~first /\ i > n - k) THEN "1" ELSE "0")])

\* Every page of at most MaxMixed records.
MixedPages ==
    UNION { { PageOf([i \in 1..n |-> Tx(i, f[i])]) : f \in [1..n -> Flags] } :
            n \in 0..MaxMixed }

AlertPages ==
    { FlaggedPage(MaxPage, k, b) : k \in 0..MaxPage, b \in BOOLEAN }
    \cup MixedPages \cup {NullPage, NoListPage}

AlertPageResponses ==
    {[ok |-> FALSE, data |-> NullPage]} \cup
    {[ok |-> TRUE, data |-> p] : p \in AlertPages}

InitAlerts ==
    \E d \in {AllElems, AllElems \ {"alert-badge"}, AllElems \ {"alerts-list"}} :
        AppStarted(d, TRUE, EmptyRegistry)

NextAlerts ==
    \/ StartupRun
    \/ LoadAlerts
    \/ NavClick("alerts")
    \/ \E r \in AlertPageResponses : AlertsResponse(r)

SpecAlerts == InitAlerts /\ [][NextAlerts]_vars

FlaggedCount(txs) == Cardinality({i \in 1..Len(txs) : txs[i].is_fraud = "1"})

Min(a, b) == IF a < b THEN a ELSE b

\* C9: when the response of loadAlerts is a page in which k records have the
\* fraud flag set, the badge then shows k, uncapped, and the list holds
\* exactly min(k, 10) alert cards when k >= 1 and exactly the one "no fraud"
\* card when k = 0.
C9_BadgeUncappedCardsCapped ==
    [][\A r \in AlertPageResponses :
          (AlertsResponse(r) /\ r.ok /\ ~r.data.isNull) =>
            LET k == FlaggedCount(ListOf(r.data))
            IN  /\ "alert-badge" \in dom => alertBadge' = k
                /\ k = 0 => alertCards' = <<NoFraudCard>>
                /\ k >= 1 =>
                      /\ Len(alertCards') = Min(k, 10)
                      /\ \A i \in 1..Len(alertCards') : alertCards'[i].kind = "alert"]_vars

\* C9 witness: the page of MaxPage records whose last 12 are flagged has
\* been rendered: badge 12, ten alert cards, for the first ten of the twelve.
C9_TwelveOfFifteen ==
    /\ last.op = "alertsResponse" /\ last.applied
    /\ alertBadge = 12
    /\ Len(alertCards) = 10
    /\ \A i \in 1..10 : alertCards[i] = [kind |-> "alert", id |-> i + (MaxPage - 12)]

(***************************************************************************)
(* Navigation with the search and the loaders' responses.                  *)
(***************************************************************************)
NavPageResponses ==
    { [ok |-> FALSE, data |-> NullPage], [ok |-> TRUE, data |-> PageOf(<<>>)],
      [ok |-> TRUE, data |-> OnePage] }

InitNav ==
    \E d \in {AllElems, AllElems \ {"alerts-list"}, AllElems \ {"all-transactions-body"}} :
        AppStarted(d, TRUE, EmptyRegistry)

NextNav ==
    \/ StartupRunCut
    \/ \E p \in PageNames : NavClick(p)
    \/ \E q \in Queries : SearchSubmit(q)
    \/ \E r \in SearchResponses : SearchResponse(r)
    \/ \E r \in NavPageResponses : TxResponse(r)
    \/ AlertsResponse([ok |-> TRUE, data |-> OnePage])

SpecNav == InitNav /\ [][NextNav]_vars

\* C10: after any sequence of nav clicks and searches exactly one page
\* section is visible and exactly one nav item is active, the item of the
\* visible page; a click on the transactions nav item issues a transactions
\* request and a click on the alerts nav item an alerts request (the page
\* having its alert list).
C10_OnePageOneActiveItem ==
    /\ [](/\ Cardinality(visible) = 1
          /\ Cardinality(active) = 1
          /\ active = visible)
    /\ [][\A p \in PageNames :
             NavClick(p) =>
               /\ visible' = {p} /\ active' = {p}
               /\ p = "transactions" => txPending' = txPending + 1
               /\ (p = "alerts" /\ "alerts-list" \in dom) =>
                     alertsPending' = alertsPending + 1
               /\ p \notin {"transactions", "alerts"} =>
                     UNCHANGED <<txPending, alertsPending>>]_vars

\* C10 witness: from the alerts page, a search with results has switched to
\* the transactions page and its nav item, without a transactions request.
C10_SearchShowsTransactions ==
    /\ last.op = "searchResponse" /\ last.applied
    /\ visible = {"transactions"} /\ active = {"transactions"}
    /\ alertsPending > 0 /\ txPending = 0

\* C19: Enter with a non-empty query whose request returns a non-empty
\* result set replaces the rows of the all-transactions table (the page
\* having one) by exactly the returned records, in their order, and makes
\* the transactions page the visible page with its nav item active; an empty
\* result set, a failed request, or Enter with an empty or blank query leaves
\* the table, the visible page and the active nav item as they were, and an
\* empty or blank query issues no request.
C19_SearchReplacesOrLeaves ==
    /\ [][\A r \in SearchResponses :
             SearchResponse(r) =>
               IF r.ok /\ Len(ListOf(r.data)) > 0 /\ "all-transactions-body" \in dom
               THEN /\ Len(allRows') = Len(r.data.txs)
                    /\ \A i \in 1..Len(allRows') :
                          /\ allRows'[i].kind = "tx"
                          /\ allRows'[i].id = r.data.txs[i].id
                    /\ visible' = {"transactions"}
                    /\ active' = {"transactions"}
               ELSE UNCHANGED <<allRows, visible, active>>]_vars
    /\ [][\A q \in Queries :
             SearchSubmit(q) =>
               /\ UNCHANGED <<allRows, visible, active>>
               /\ searchPending' = searchPending + (IF q \in {"", " "} THEN 0 ELSE 1)]_vars

\* C19 witness: the two records a search returned are the rows of the
\* all-transactions table, which held the rows of a loaded page before, and
\* the transactions page is shown.
C19_SearchRowsShown ==
    /\ last.op = "searchResponse" /\ last.applied
    /\ Len(allRows) = 2 /\ allRows[1].id = 3 /\ allRows[2].id = 4
    /\ recentRows = Rows(OnePage.txs)
    /\ visible = {"transactions"} /\ active = {"transactions"}

(***************************************************************************)
(* analyzeTransaction and the export button.                               *)
(***************************************************************************)
\* (x * 100).toFixed(2) + "%", x given in hundredths of a percent.
Fixed2(bp) ==
    Dec(bp \div 100) \o "." \o Digit((bp % 100) \div 10) \o Digit(bp % 10) \o "%"

\* A /api/analyze payload: null, or the verdict.
NullVerdict == [isNull |-> TRUE, is_fraud |-> FALSE, bp |-> 0, risk |-> "",
                recommendation |-> ""]

Verdict(f, bp, risk, rec) ==
    [isNull |-> FALSE, is_fraud |-> f, bp |-> bp, risk |-> risk,
     recommendation |-> rec]

AnalyzePayloads == { NullVerdict, Verdict(TRUE, 8750, "HIGH", "Block"),
                     Verdict(FALSE, 125, "LOW", "Approve") }

AnalyzeResponses ==
    {[ok |-> FALSE, data |-> NullVerdict]} \cup
    {[ok |-> TRUE, data |-> p] : p \in AnalyzePayloads}

\* What #analyze-amount holds: nothing, a number, something else.
Amounts == {"", "100", "abc"}

\* amountMissing with a fault: every amount is accepted.
amountNeverMissing(amt) == FALSE

\* if (!amt)
amountMissing(amt) == amt = ""

\* analyzeTransaction() up to its await: without an amount the notice and
\* nothing else, otherwise the POST /api/analyze.
AnalyzeClick(amt) ==
    /\ analyzePending < MaxPending
    /\ IF amountMissing(amt)
       THEN /\ notice' = "Enter amount"
            /\ UNCHANGED analyzePending
            /\ last' = Call("analyzeTransaction", amt, FALSE, FALSE, FALSE, FALSE)
       ELSE /\ notice' = ""
            /\ analyzePending' = analyzePending + 1
            /\ last' = Call("analyzeTransaction", amt, FALSE, FALSE, FALSE, TRUE)
    /\ UNCHANGED <<chartLib, dom, chartVars, reportVars, runVars, tableVars,
                   alertVars, txPending, alertsPending, searchPending, navVars,
                   refreshVars, analysisHidden, analysis, exportPending, ready, chartTimer>>

\* The result fields as the verdict sets them.
AnalysisOf(res) ==
    [prediction     |-> IF res.is_fraud THEN "FRAUD DETECTED" ELSE "Legitimate",
     color          |-> IF res.is_fraud THEN "#ef4444" ELSE "#10b981",
     probability    |-> Fixed2(res.bp),
     risk           |-> res.risk,
     recommendation |-> res.recommendation]

\* analyzeTransaction after its await: the result is shown and its fields
\* set; a failed request, a missing #analysis-result or a null verdict ends
\* in the catch, which raises "Analysis failed".
AnalyzeResponse(resp) ==
    /\ analyzePending > 0
    /\ analyzePending' = analyzePending - 1
    /\ IF ~resp.ok \/ "analysis-result" \notin dom
       THEN /\ notice' = "Analysis failed"
            /\ UNCHANGED <<analysisHidden, analysis>>
            /\ last' = Call("analyzeResponse", "", FALSE, FALSE, FALSE, FALSE)
       ELSE /\ analysisHidden' = FALSE
            /\ IF resp.data.isNull
               THEN /\ notice' = "Analysis failed"
                    /\ UNCHANGED analysis
                    /\ last' = Call("analyzeResponse", "", FALSE, FALSE, FALSE, FALSE)
               ELSE /\ notice' = ""
                    /\ analysis' = AnalysisOf(resp.data)
                    /\ last' = Call("analyzeResponse", "", FALSE, FALSE, TRUE, FALSE)
    /\ UNCHANGED <<chartLib, dom, chartVars, reportVars, runVars, tableVars,
                   alertVars, txPending, alertsPending, searchPending, navVars,
                   refreshVars, exportPending, ready, chartTimer>>

\* Click on #export-btn: the GET /api/export is issued.
ExportClick ==
    /\ exportPending < MaxPending
    /\ exportPending' = exportPending + 1
    /\ notice' = ""
    /\ last' = Call("export", "", FALSE, FALSE, FALSE, TRUE)
    /\ UNCHANGED <<chartLib, dom, chartVars, reportVars, runVars, tableVars,
                   alertVars, txPending, alertsPending, searchPending, navVars,
                   refreshVars, analysisVars, ready, chartTimer>>

\* How a fetch() can end: a 2xx response, another response, no response.
FetchOutcomes == {"ok", "status", "network"}

\* The export handler after its await: the download on a 2xx response,
\* nothing on another response, "Export failed" when fetch rejected.
ExportResponse(outcome) ==
    /\ exportPending > 0
    /\ exportPending' = exportPending - 1
    /\ notice' = IF outcome = "network" THEN "Export failed" ELSE ""
    /\ last' = Call("exportResponse", outcome, FALSE, FALSE, outcome = "ok", FALSE)
    /\ UNCHANGED <<chartLib, dom, chartVars, reportVars, runVars, tableVars,
                   alertVars, txPending, alertsPending, searchPending, navVars,
                   refreshVars, analysisVars, ready, chartTimer>>

(***************************************************************************)
(* The refresh button from the moment initializeApp returns, clicked       *)
(* during the start-up run, during an earlier refresh or after it, with an *)
(* analysis result that may be on show.                                    *)
(***************************************************************************)
GoodVerdict == Verdict(TRUE, 8750, "HIGH", "Block")

InitHandle ==
    \E d \in { Document, Document \ {"header-caption"},
               Document \ {"analysis-result"}, Document \ {"alerts-list"} } :
        AppStarted(d, TRUE, EmptyRegistry)

NextHandle ==
    \/ RefreshClick
    \/ \E i \in Invocations :
          \/ \E r \in RefreshResponses : RefreshPostResponseOf(i, r)
          \/ \E r \in {[ok |-> FALSE, data |-> NullStats], [ok |-> TRUE, data |-> GoodStats]} :
                StatsResponseOf(i, r)
          \/ ChartResponseOf(i, "fraudDistribution", [ok |-> FALSE, data |-> NullPayload])
          \/ RunTxResponseOf(i, [ok |-> TRUE, data |-> OnePage])
    \/ AlertsResponse([ok |-> TRUE, data |-> OnePage])
    \/ StopSpin
    \/ AnalyzeClick("100")
    \/ AnalyzeResponse([ok |-> TRUE, data |-> GoodVerdict])

SpecHandle == InitHandle /\ [][NextHandle]_vars

\* C11: in handleRefresh the caption is set only in the step in which the
\* full refresh completes, and then no request of that refresh (chart,
\* alert list) is still in flight; the analysis result is hidden in the step
\* that completes the handler.
C11_CaptionAfterWholeRefresh ==
    [][/\ (caption' # caption /\ older = <<>> /\ alertsPending = 0) =>
            /\ refresh.pc = "running" /\ run'.pc = "done"
            /\ alertsPending' = 0
            /\ \A n \in ChartNames : chartFetch'[n] # "pending"
       /\ (refresh.pc = "running" /\ refresh'.pc = "done"
           /\ "analysis-result" \in dom) => analysisHidden']_vars

(***************************************************************************)
(* handleRefresh around its POST: every outcome of the POST, clicks that   *)
(* overlap, and runs cut short by a failing statistics request.  The 500   *)
(* ms timers of the spinner stay armed.                                    *)
(***************************************************************************)
InitPost == AppStarted(Document, TRUE, EmptyRegistry)

NextPost ==
    \/ RefreshClick
    \/ \E i \in Invocations :
          \/ \E r \in RefreshResponses : RefreshPostResponseOf(i, r)
          \/ StatsResponseOf(i, [ok |-> FALSE, data |-> NullStats])
          \/ RunTxResponseOf(i, [ok |-> TRUE, data |-> OnePage])
    \/ AlertsResponse([ok |-> TRUE, data |-> OnePage])
    \/ AnalyzeClick("100")
    \/ AnalyzeResponse([ok |-> TRUE, data |-> GoodVerdict])

SpecPost == InitPost /\ [][NextPost]_vars

\* C18: when the POST /api/refresh of handleRefresh fails, that step issues
\* no stats, chart, transaction or alert request, leaves the caption and the
\* visibility of the analysis result as they were, and ends the handler in
\* its catch.
C18_FailedPostAborts ==
    [][\A i \in Invocations, r \in RefreshResponses :
          (RefreshPostResponseOf(i, r) /\ ~r.ok) =>
             /\ UNCHANGED <<run, chartFetch, txPending, alertsPending>>
             /\ UNCHANGED <<caption, analysisHidden, stats, tableVars, alertVars>>
             /\ IF i = 0 THEN refresh'.pc = "failed" /\ UNCHANGED older
                ELSE Len(older') = Len(older) - 1]_vars

\* C18 witness: after a refresh that set the caption and an analysis that is
\* on show, a handleRefresh whose POST failed has ended with both untouched
\* and no run started.
C18_FailedPostKeepsCaption ==
    /\ last.op = "refreshPost" /\ refresh.pc = "failed"
    /\ caption = CaptionOf(RefreshPayload("a.csv", 10))
    /\ ~analysisHidden
    /\ run.pc = "none" /\ older = <<>> /\ alertsPending = 0

(***************************************************************************)
(* The analyze form, the export button and the search box.                 *)
(***************************************************************************)
InitForms ==
    \E d \in { Document, Document \ {"analysis-result"},
               Document \ {"all-transactions-body"} } :
        AppStarted(d, TRUE, EmptyRegistry)

NextForms ==
    \/ StartupRun
    \/ \E a \in Amounts : AnalyzeClick(a)
    \/ \E r \in AnalyzeResponses : AnalyzeResponse(r)
    \/ ExportClick
    \/ \E o \in FetchOutcomes : ExportResponse(o)
    \/ \E q \in Queries : SearchSubmit(q)
    \/ \E r \in SearchResponses : SearchResponse(r)

SpecForms == InitForms /\ [][NextForms]_vars

\* C12: analyzeTransaction with an empty amount issues no request, raises
\* the "Enter amount" notice and leaves the result fields and their
\* visibility as they were; with a non-empty amount it issues exactly one
\* POST /api/analyze.
C12_EmptyAmountRejected ==
    [][\A a \in Amounts :
          AnalyzeClick(a) =>
             /\ a = "" => /\ analyzePending' = analyzePending
                          /\ notice' = "Enter amount"
                          /\ UNCHANGED <<analysis, analysisHidden>>
                          /\ UNCHANGED <<exportPending, searchPending, txPending,
                                         alertsPending>>
             /\ a # "" => /\ analyzePending' = analyzePending + 1
                          /\ notice' = ""]_vars

\* C12 witness: with a verdict on show and a request in flight, a click with
\* the amount empty has raised the notice and left both alone.
C12_NoticeOverShownVerdict ==
    /\ last.op = "analyzeTransaction" /\ last.arg = "" /\ ~last.issued
    /\ notice = "Enter amount"
    /\ ~analysisHidden /\ analysis = AnalysisOf(GoodVerdict)
    /\ analyzePending = 1

\* C15: for search, export and analyze, the turn that handles a failed
\* request (a response that is not 2xx, or no response) raises an alert
\* dialog.
C15_FailuresRaiseAlert ==
    [][/\ \A r \in SearchResponses : (SearchResponse(r) /\ ~r.ok) => notice' # ""
       /\ \A o \in FetchOutcomes : (ExportResponse(o) /\ o # "ok") => notice' # ""
       /\ \A r \in AnalyzeResponses : (AnalyzeResponse(r) /\ ~r.ok) => notice' # ""]_vars

(***************************************************************************)
(* loadTransactions on pages of every length up to MaxPage.                *)
(***************************************************************************)
TablePages ==
    { FlaggedPage(n, n \div 2, TRUE) : n \in 0..MaxPage }
    \cup MixedPages \cup {NullPage, NoListPage}

TablePageResponses ==
    {[ok |-> FALSE, data |-> NullPage]} \cup
    {[ok |-> TRUE, data |-> p] : p \in TablePages}

InitTables ==
    \E d \in { Document, Document \ {"recent-transactions-body"},
               Document \ {"all-transactions-body"} } :
        AppStarted(d, TRUE, EmptyRegistry)

NextTables ==
    \/ StartupRun
    \/ NavClick("transactions")
    \/ LoadTransactions
    \/ \E r \in TablePageResponses : TxResponse(r)

SpecTables == InitTables /\ [][NextTables]_vars

\* The rows show exactly the records txs, in order.
ShowsRecords(rows, txs) ==
    /\ Len(rows) = Len(txs)
    /\ \A i \in 1..Len(txs) : rows[i].kind = "tx" /\ rows[i].id = txs[i].id

\* The rows are one row with an empty-state message.
ShowsEmptyState(rows) == Len(rows) = 1 /\ rows[1].kind = "empty"

\* C13: after a successful loadTransactions on a list of n records the
\* recent table holds the first min(n, 10) of them in fetched order and the
\* full table all n in fetched order; for n = 0 each table holds exactly one
\* row, an empty-state message.
C13_TablesShowFetchedList ==
    [][\A r \in TablePageResponses :
          (TxResponse(r) /\ r.ok /\ ~r.data.isNull) =>
             LET txs == ListOf(r.data)
                 n   == Len(txs)
             IN  /\ "recent-transactions-body" \in dom =>
                       IF n = 0 THEN ShowsEmptyState(recentRows')
                       ELSE ShowsRecords(recentRows', SubSeq(txs, 1, Min(n, 10)))
                 /\ "all-transactions-body" \in dom =>
                       IF n = 0 THEN ShowsEmptyState(allRows')
                       ELSE ShowsRecords(allRows', txs)]_vars

\* C13 witness: a page of MaxPage records has been rendered, ten rows in the
\* recent table and all of them in the full table.
C13_LongPageRendered ==
    /\ last.op = "txResponse" /\ last.applied
    /\ Len(recentRows) = 10 /\ recentRows[10].id = 10
    /\ Len(allRows) = MaxPage /\ allRows[MaxPage].id = MaxPage

(***************************************************************************)
(* Chart initialisation against a fixed document, for every set of         *)
(* canvases the document may hold.                                         *)
(***************************************************************************)
InitMount ==
    \E d \in SUBSET Canvases, lib \in BOOLEAN :
        PageLoaded((Document \ Canvases) \cup d, lib)

NextMount ==
    \/ ChartLibLoads
    \/ InitializeCharts
    \/ \E n \in ChartNames : InitOneChart(n)

SpecMount == InitMount /\ [][NextMount]_vars

\* C14: whichever chart canvases the document lacks, a slot whose canvas is
\* absent is unmounted, and initializeCharts (the chart library loaded)
\* completes without throwing and mounts every slot whose canvas is present.
C14_AbsentCanvasesSkipped ==
    /\ [](\A n \in ChartNames : CanvasOf(n) \notin dom => charts[n] = 0)
    /\ [][(InitializeCharts /\ chartLib) =>
             /\ ~last'.threw
             /\ \A n \in ChartNames :
                   CanvasOf(n) \in dom =>
                      charts'[n] # 0 /\ live'[n] = {charts'[n]}]_vars

\* C14 witness: with only the amount-distribution canvas absent,
\* initializeCharts has completed with a warning, that slot unmounted and
\* the three others mounted.
C14_ThreeOfFourMounted ==
    /\ last.op = "initializeCharts" /\ ~last.threw /\ last.warned
    /\ Canvases \ dom = {"amount-distribution-chart"}
    /\ charts["amountDistribution"] = 0
    /\ \A n \in ChartNames \ {"amountDistribution"} : charts[n] # 0

(***************************************************************************)
(* The start-up refresh on documents that lack one of the stat cards.      *)
(***************************************************************************)
InitMissing ==
    \E d \in {Document} \cup {Document \ {e} : e \in StatIds} :
        PageCharted(d)

NextMissing ==
    \/ StartRefresh
    \/ \E r \in StatsResponses : StatsResponse(r)
    \/ \E n \in ChartNames, r \in RunChartResponses : ChartResponse(n, r)
    \/ RunTxResponse([ok |-> TRUE, data |-> OnePage])
    \/ AlertsResponse([ok |-> TRUE, data |-> OnePage])

SpecMissing == InitMissing /\ [][NextMissing]_vars

StatIndex(s) == CHOOSE i \in 1..Len(StatOrder) : StatOrder[i] = s

\* C16: when a stat card is absent from the document, loadDashboardData on a
\* successful statistics response skips only the write to that card: every
\* card that is present shows the new value and the four chart requests are
\* issued.
C16_OnlyMissingUpdateSkipped ==
    [][\A r \in StatsResponses :
          (StatsResponse(r) /\ r.ok /\ ~r.data.isNull) =>
             /\ \A s \in StatIds \cap dom :
                   stats'[s] = StatText(r.data, StatIndex(s))
             /\ \A n \in ChartNames : chartFetch'[n] = "pending"]_vars

\* C20: every run of initializeCharts in which all four init attempts have
\* completed (each mounted or skipped) delivers the readiness signal to the
\* application controller, after the fourth attempt.
C20_ReadinessDelivered ==
    [][(InitializeCharts /\ ~last'.threw) => ready']_vars

(***************************************************************************)
(* Report requests in flight against closeReport and against each other.   *)
(***************************************************************************)
\* C21: whenever the report modal is not active, no report widget is live;
\* a response that arrives after closeReport constructs no widget behind the
\* closed modal.
C21_ClosedModalNoWidget ==
    ~modalActive => (reportChart = 0 /\ live["report"] = {})

\* C22: once every report response has been handled, the report widget the
\* content shows is the one of the report type requested last, the type the
\* modal title names, in whatever order the responses of overlapping
\* generateReport calls arrived.
C22_LastRequestedReportShown ==
    (reportPending = <<>> /\ reportContent = "chart" /\ reportChart # 0) =>
        reportTitle = TitleOf(reportKind)

(***************************************************************************)
(* Page load: the two DOMContentLoaded handlers have run.  The charts were *)
(* initialised at once when Chart was defined, else the 500 ms timer is    *)
(* armed; the application's 100 ms timer starts the first refresh.  Every  *)
(* request succeeds.                                                       *)
(***************************************************************************)
LoadDocuments == {Document} \cup {Document \ {c} : c \in Canvases}

InitLoad ==
    \E d \in LoadDocuments :
        \/ PageCharted(d)
        \/ PageAt(d, FALSE, EmptyRegistry, TRUE)

NextLoad ==
    \/ ChartLibLoads
    \/ ChartTimerFires
    \/ StartRefresh
    \/ StatsResponse([ok |-> TRUE, data |-> GoodStats])
    \/ \E n \in ChartNames : ChartResponse(n, [ok |-> TRUE, data |-> GoodChart])
    \/ RunTxResponse([ok |-> TRUE, data |-> OnePage])
    \/ AlertsResponse([ok |-> TRUE, data |-> OnePage])

SpecLoad == InitLoad /\ [][NextLoad]_vars

\* The page load has settled: the library is loaded, the chart timer has
\* fired, the refresh has completed and every request has been answered.
\* No action of the page load is enabled any more.
LoadSettled ==
    /\ chartLib /\ ~chartTimer
    /\ run.pc = "done" /\ alertsPending = 0
    /\ \A n \in ChartNames : chartFetch[n] # "pending"

\* The chart shows the dataset its request returned.
ShowsFetched(n) ==
    /\ charts[n] # 0
    /\ chartData[n].drawn = [labels |-> chartResp[n].labels.v,
                             data   |-> chartResp[n].data.v]

\* C23: on page load, for every chart whose canvas is present, the dataset
\* fetched by the initial refresh is eventually displayed in that chart,
\* whether the charts were initialised at once or by the 500 ms timer and
\* in whatever order the timers fire and the responses arrive.  Every page
\* load settles after finitely many steps and nothing happens afterwards,
\* so the dataset is eventually displayed exactly when it is displayed once
\* the load has settled.
C23_FetchedChartDataDisplayed ==
    LoadSettled =>
        \A n \in ChartNames :
            (CanvasOf(n) \in dom /\ chartFetch[n] = "ok") => ShowsFetched(n)

(***************************************************************************)
(* A search against loadTransactions requests issued before it, by the     *)
(* start-up run, a nav click or window.loadTransactions.  tableLatest      *)
(* records which request for the full table was issued last: while it is   *)
(* "search", every transactions request in flight was issued before that   *)
(* search was submitted.                                                   *)
(***************************************************************************)
SearchHits == <<Tx(3, "1"), Tx(4, "0")>>

InitRace ==
    \E d \in {AllElems, AllElems \ {"transactions-page"}} :
        AppStarted(d, TRUE, EmptyRegistry)

NextRace ==
    \/ StartupRun
    \/ NavClick("transactions")
    \/ LoadTransactions
    \/ \E q \in Queries : SearchSubmit(q)
    \/ \E r \in SearchResponses : SearchResponse(r)
    \/ \E r \in NavPageResponses : TxResponse(r)

SpecRace == InitRace /\ [][NextRace]_vars

\* C24: search results written into the all-transactions table are not
\* overwritten by the response of a loadTransactions request issued before
\* the search was submitted; the table keeps the result of the request
\* issued last.
C24_SearchResultsNotOverwritten ==
    [][\A r \in NavPageResponses :
          ( /\ TxResponse(r) \/ RunTxResponse(r)
            /\ tableLatest = "search"
            /\ allRows = Rows(SearchHits) ) => allRows' = allRows]_vars

(***************************************************************************)
(* The fraud flag as a number or as a boolean, through the table renderers *)
(* and through loadAlerts.                                                 *)
(***************************************************************************)
\* is_fraud as a boolean-like flag: the JSON numbers 0 and 1, the JSON
\* booleans false and true.
BoolFlags == Flags \cup {"true", "false"}

\* Every page of at most MaxMixed records with such flags.
FlagPages ==
    UNION { { PageOf([i \in 1..n |-> Tx(i, f[i])]) : f \in [1..n -> BoolFlags] } :
            n \in 0..MaxMixed }

FlagResponses == {[ok |-> TRUE, data |-> p] : p \in FlagPages}

InitFlags == AppStarted(AllElems, TRUE, EmptyRegistry)

NextFlags ==
    \/ StartupRun
    \/ NavClick("transactions")
    \/ NavClick("alerts")
    \/ \E r \in FlagResponses : TxResponse(r)
    \/ \E r \in FlagResponses : AlertsResponse(r)

SpecFlags == InitFlags /\ [][NextFlags]_vars

\* The number of records of txs the table renderers show as 'Fraud'.
ShownAsFraud(txs) ==
    Cardinality({i \in 1..Len(txs) : Row(txs[i]).status = "Fraud"})

\* C25: the tables and the alert list classify records alike: of a page of
\* records with flags 1, true, 0, false, loadAlerts counts for the badge,
\* and shows as alert cards, exactly the records the tables show with status
\* 'Fraud'; and the tables show with status 'Fraud' exactly the records
\* loadAlerts counts.
C25_TablesAndAlertsAgree ==
    /\ [][\A r \in FlagResponses :
             AlertsResponse(r) =>
               /\ alertBadge' = ShownAsFraud(r.data.txs)
               /\ \A i \in 1..Len(r.data.txs) :
                     (Row(r.data.txs[i]).status = "Fraud") <=>
                        (\E j \in 1..Len(alertCards') :
                            alertCards'[j] = AlertCard(r.data.txs[i]))]_vars
    /\ [][\A r \in FlagResponses :
             TxResponse(r) =>
               \A i \in 1..Len(r.data.txs) :
                  (allRows'[i].status = "Fraud") <=>
                     (loadAlertsStep(alertCards, alertBadge, dom,
                         [ok |-> TRUE, data |-> PageOf(<<r.data.txs[i]>>)]).badge = 1)]_vars

====
